---- MODULE Spec2Model ----
(***************************************************************************)
(* Shark: the lazily evaluated vector expression classes                   *)
(* (include/shark/LinAlg/BLAS/detail/vector_expression_classes.hpp) and    *)
(* the benchmark function DTLZ2                                            *)
(* (include/shark/ObjectiveFunctions/Benchmarks/DTLZ2.h).                  *)
(*                                                                         *)
(* value_type is modelled by the integers (exact arithmetic); indices are  *)
(* zero-based as in the source, containers are TLA+ sequences, so element  *)
(* i of a container c is c[i + 1].                                         *)
(***************************************************************************)
EXTENDS Integers, Sequences, FiniteSets

VARIABLES
    expr,                 \* the vector expression built so far by composition
    last,                 \* outcome of the last operation on the expression
    m_objectives,         \* DTLZ2::m_objectives
    m_handler,            \* DTLZ2::m_handler, the box constraint handler
    m_evaluationCounter,  \* evaluation counter of the objective function
    result,               \* what the last call of DTLZ2::eval returned
    cfg                   \* history: the configuration the callers asked for

vecvars == <<expr, last>>

dtlzvars == <<m_objectives, m_handler, m_evaluationCounter, result, cfg>>

vars == <<expr, last, m_objectives, m_handler, m_evaluationCounter, result, cfg>>

---------------------------------------------------------------------------
(* Bounds of the model *)

MaxLen == 2          \* longest vector
MaxDepth == 2        \* number of composition steps applied on top of a leaf
MaxVars == 5         \* largest number of variables of DTLZ2
MaxHalf == 3         \* search point coordinates are 0, 1/2, ..., MaxHalf/2
MaxEvals == 2        \* evaluations counted

(* Input domains *)
Lengths == 0..MaxLen
LeafVals == {1, 2}            \* first element of a dense leaf
ConstVals == {2}              \* value of a constant vector
DestVals == {0, 3}            \* first element of the destination's prior contents
Scalars == {-1, 2}            \* scalars of ScalarMultiply nodes
Alphas == {-1, 2}             \* scales passed to the kernels
UnaryFunctors == {"sqr", "inc"}
BinaryFunctors == {"mul", "sub"}

ramp(n, v) == [i \in 1..n |-> v + i - 1]

---------------------------------------------------------------------------
(* Functors (template parameter F, device_traits functors) *)

Apply1(f, v) == IF f = "sqr" THEN v * v ELSE v + 1

Apply2(f, a, b) == IF f = "mul" THEN a * b ELSE a - b

multiply_scalar(m_scalar, v) == v * m_scalar

add(a, b) == a + b

---------------------------------------------------------------------------
(* Expression nodes *)

\* a dense container holding its elements
vector(data) == [kind |-> "vector", data |-> data]

scalar_vector_default == [kind |-> "scalar_vector", m_size |-> 0, m_value |-> 0]

scalar_vector(size_, value) == [kind |-> "scalar_vector", m_size |-> size_, m_value |-> value]

vector_scalar_multiply(e, scalar) ==
    [kind |-> "vector_scalar_multiply", m_expression |-> e, m_scalar |-> scalar]

vector_unary(e, functor) ==
    [kind |-> "vector_unary", m_expression |-> e, m_functor |-> functor]

RECURSIVE size(_)
size(e) ==
    CASE e.kind = "vector" -> Len(e.data)
      [] e.kind = "scalar_vector" -> e.m_size
      [] e.kind = "vector_scalar_multiply" -> size(e.m_expression)
      [] e.kind = "vector_unary" -> size(e.m_expression)
      [] e.kind = "vector_addition" -> size(e.m_lhs)
      [] e.kind = "vector_binary" -> size(e.m_lhs)

\* SIZE_CHECK(cond): TRUE when the check passes; a failing check is reported
\* as a size mismatch and the enclosing operation does not complete
SIZE_CHECK(cond) == cond

vector_addition_nocheck(e1, e2) ==
    [thrown |-> FALSE,
     node |-> [kind |-> "vector_addition", m_lhs |-> e1, m_rhs |-> e2]]

vector_addition(e1, e2) ==
    [thrown |-> ~SIZE_CHECK(size(e1) = size(e2)),
     node |-> [kind |-> "vector_addition", m_lhs |-> e1, m_rhs |-> e2]]

vector_binary(e1, e2, functor) ==
    [thrown |-> ~SIZE_CHECK(size(e1) = size(e2)),
     node |-> [kind |-> "vector_binary", m_lhs |-> e1, m_rhs |-> e2,
               m_functor |-> functor]]

\* operator()(i), i zero-based
RECURSIVE At(_, _)
At(e, i) ==
    CASE e.kind = "vector" -> e.data[i + 1]
      [] e.kind = "scalar_vector" -> e.m_value
      [] e.kind = "vector_scalar_multiply" ->
            multiply_scalar(e.m_scalar, At(e.m_expression, i))
      [] e.kind = "vector_unary" -> Apply1(e.m_functor, At(e.m_expression, i))
      [] e.kind = "vector_addition" -> add(At(e.m_lhs, i), At(e.m_rhs, i))
      [] e.kind = "vector_binary" ->
            Apply2(e.m_functor, At(e.m_lhs, i), At(e.m_rhs, i))

\* number of invocations of a transform functor F made by one operator()(i)
RECURSIVE FunctorCalls(_)
FunctorCalls(e) ==
    CASE e.kind = "vector" -> 0
      [] e.kind = "scalar_vector" -> 0
      [] e.kind = "vector_scalar_multiply" -> FunctorCalls(e.m_expression)
      [] e.kind = "vector_unary" -> 1 + FunctorCalls(e.m_expression)
      [] e.kind = "vector_addition" -> FunctorCalls(e.m_lhs) + FunctorCalls(e.m_rhs)
      [] e.kind = "vector_binary" -> 1 + FunctorCalls(e.m_lhs) + FunctorCalls(e.m_rhs)

RECURSIVE Depth(_)
Depth(e) ==
    CASE e.kind \in {"vector", "scalar_vector"} -> 0
      [] e.kind \in {"vector_scalar_multiply", "vector_unary"} -> 1 + Depth(e.m_expression)
      [] OTHER -> 1 + (IF Depth(e.m_lhs) > Depth(e.m_rhs) THEN Depth(e.m_lhs) ELSE Depth(e.m_rhs))

---------------------------------------------------------------------------
(* Constant iterator of scalar_vector: (value, position) *)

constant_iterator(value, position) == [value |-> value, position |-> position]

scalar_vector_begin(e) == constant_iterator(e.m_value, 0)

scalar_vector_end_offbyone(e) == constant_iterator(e.m_value, e.m_size + 1)

scalar_vector_end(e) == constant_iterator(e.m_value, e.m_size)

\* the values met by  for(it = first; it != last_; ++it) *it
RECURSIVE Traverse(_, _)
Traverse(first, last_) ==
    IF first.position = last_.position
    THEN <<>>
    ELSE <<first.value>> \o
         Traverse(constant_iterator(first.value, first.position + 1), last_)

---------------------------------------------------------------------------
(* Assignment: a run st carries the destination container x, the number   *)
(* of transform-functor invocations made by the accumulation passes        *)
(* (calls), the operands materialised by eval_block (blocks) and the       *)
(* functor invocations those materialisations made (operand_calls).        *)

Run(x) == [x |-> x, calls |-> 0, blocks |-> <<>>, operand_calls |-> 0]

\* x().clear(): every element becomes value_type()
clear(st) == [st EXCEPT !.x = [i \in 1..Len(st.x) |-> 0]]

\* eval_block(e): e materialised into a temporary container
eval_block(st, e) ==
    [st |-> [st EXCEPT !.blocks = Append(@, e),
                       !.operand_calls = @ + size(e) * FunctorCalls(e)],
     block |-> vector([i \in 1..size(e) |-> At(e, i - 1)])]

\* generic elementwise x = alpha * e
assign(st, e, alpha) ==
    [st EXCEPT !.x = [i \in 1..Len(st.x) |-> alpha * At(e, i - 1)],
               !.calls = @ + Len(st.x) * FunctorCalls(e)]

\* generic elementwise x += alpha * e
plus_assign(st, e, alpha) ==
    [st EXCEPT !.x = [i \in 1..Len(st.x) |-> st.x[i] + alpha * At(e, i - 1)],
               !.calls = @ + Len(st.x) * FunctorCalls(e)]

RECURSIVE assign_to(_, _, _)
RECURSIVE plus_assign_to(_, _, _)

(* vector_scalar_multiply kernels *)

vector_scalar_multiply_assign_to_noscale(self, st, alpha) ==
    assign_to(self.m_expression, st, alpha)

vector_scalar_multiply_assign_to(self, st, alpha) ==
    assign_to(self.m_expression, st, alpha * self.m_scalar)

vector_scalar_multiply_plus_assign_to(self, st, alpha) ==
    plus_assign_to(self.m_expression, st, alpha * self.m_scalar)

(* vector_unary kernels *)

vector_unary_plus_assign_to_block_noscale(self, st, v, alpha) ==
    LET e == vector_unary(v, self.m_functor)
    IN  plus_assign(st, e, 1)

\* private helper plus_assign_to(x, v, alpha)
vector_unary_plus_assign_to_block(self, st, v, alpha) ==
    LET e == vector_unary(v, self.m_functor)
        e1 == vector_scalar_multiply(e, alpha)
    IN  plus_assign(st, e1, 1)

vector_unary_assign_to_noblock(self, st, alpha) ==
    vector_unary_plus_assign_to_block(self, clear(st), self.m_expression, alpha)

vector_unary_assign_to(self, st, alpha) ==
    LET b == eval_block(clear(st), self.m_expression)
    IN  vector_unary_plus_assign_to_block(self, b.st, b.block, alpha)

vector_unary_plus_assign_to(self, st, alpha) ==
    LET b == eval_block(st, self.m_expression)
    IN  vector_unary_plus_assign_to_block(self, b.st, b.block, alpha)

(* vector_addition kernels *)

vector_addition_assign_to_noclear(self, st, alpha) ==
    plus_assign(plus_assign(st, self.m_lhs, alpha), self.m_rhs, alpha)

vector_addition_assign_to(self, st, alpha) ==
    plus_assign(assign(st, self.m_lhs, alpha), self.m_rhs, alpha)

vector_addition_plus_assign_to(self, st, alpha) ==
    plus_assign(plus_assign(st, self.m_lhs, alpha), self.m_rhs, alpha)

(* vector_binary kernels *)

\* private helper plus_assign_to(x, lhs, rhs, alpha): e1 is built and then
\* plus_assign is handed e, not e1
vector_binary_plus_assign_to_block(self, st, lhs, rhs, alpha) ==
    LET e == vector_binary(lhs, rhs, self.m_functor).node
        e1 == vector_scalar_multiply(e, alpha)
    IN  plus_assign(st, e, 1)

vector_binary_assign_to(self, st, alpha) ==
    LET bl == eval_block(clear(st), self.m_lhs)
        br == eval_block(bl.st, self.m_rhs)
    IN  vector_binary_plus_assign_to_block(self, br.st, bl.block, br.block, alpha)

vector_binary_plus_assign_to(self, st, alpha) ==
    LET bl == eval_block(st, self.m_lhs)
        br == eval_block(bl.st, self.m_rhs)
    IN  vector_binary_plus_assign_to_block(self, br.st, bl.block, br.block, alpha)

\* e.assign_to(x, alpha), resolved on the static type of e
assign_to(e, st, alpha) ==
    CASE e.kind = "vector_scalar_multiply" -> vector_scalar_multiply_assign_to(e, st, alpha)
      [] e.kind = "vector_unary" -> vector_unary_assign_to(e, st, alpha)
      [] e.kind = "vector_addition" -> vector_addition_assign_to(e, st, alpha)
      [] e.kind = "vector_binary" -> vector_binary_assign_to(e, st, alpha)
      [] OTHER -> assign(st, e, alpha)

\* e.plus_assign_to(x, alpha), resolved on the static type of e
plus_assign_to(e, st, alpha) ==
    CASE e.kind = "vector_scalar_multiply" -> vector_scalar_multiply_plus_assign_to(e, st, alpha)
      [] e.kind = "vector_unary" -> vector_unary_plus_assign_to(e, st, alpha)
      [] e.kind = "vector_addition" -> vector_addition_plus_assign_to(e, st, alpha)
      [] e.kind = "vector_binary" -> vector_binary_plus_assign_to(e, st, alpha)
      [] OTHER -> plus_assign(st, e, alpha)

---------------------------------------------------------------------------
(* Operations on the expression *)

Outcome(op) ==
    [op |-> op, kind |-> "", n1 |-> 0, n2 |-> 0, arg |-> 0, thrown |-> FALSE,
     alpha |-> 0, idx |-> 0, x0 |-> <<>>, x |-> <<>>, calls |-> 0, blocks |-> <<>>,
     operand_calls |-> 0]

Constructed(kind, n1, n2, arg, thrown) ==
    [Outcome("construct") EXCEPT !.kind = kind, !.n1 = n1, !.n2 = n2,
                                 !.arg = arg, !.thrown = thrown]

\* the operands a binary node is composed with, besides expr itself
Operands == {vector(ramp(n, 1)) : n \in Lengths}

IsLeaf(e) == e.kind \in {"vector", "scalar_vector"}

NewVector(n, v) ==
    /\ expr' = vector(ramp(n, v))
    /\ last' = Constructed("vector", n, n, v, FALSE)
    /\ UNCHANGED dtlzvars

NewScalarVectorDefault ==
    /\ expr' = scalar_vector_default
    /\ last' = Constructed("scalar_vector_default", 0, 0, 0, FALSE)
    /\ UNCHANGED dtlzvars

NewScalarVector(n, v) ==
    /\ expr' = scalar_vector(n, v)
    /\ last' = Constructed("scalar_vector", n, n, v, FALSE)
    /\ UNCHANGED dtlzvars

NewScalarMultiply(s) ==
    /\ Depth(expr) < MaxDepth
    /\ expr' = vector_scalar_multiply(expr, s)
    /\ last' = Constructed("vector_scalar_multiply", size(expr), size(expr), s, FALSE)
    /\ UNCHANGED dtlzvars

NewUnary(f) ==
    /\ Depth(expr) < MaxDepth
    /\ expr' = vector_unary(expr, f)
    /\ last' = Constructed("vector_unary", size(expr), size(expr), 0, FALSE)
    /\ UNCHANGED dtlzvars

\* a constructor whose SIZE_CHECK fails yields no node: expr stays as it was
NewAddition(other, exprIsLhs) ==
    /\ Depth(expr) < MaxDepth
    /\ LET e1 == IF exprIsLhs THEN expr ELSE other
           e2 == IF exprIsLhs THEN other ELSE expr
           r == vector_addition(e1, e2)
       IN  /\ expr' = IF r.thrown THEN expr ELSE r.node
           /\ last' = Constructed("vector_addition", size(e1), size(e2), 0, r.thrown)
    /\ UNCHANGED dtlzvars

NewBinary(other, f) ==
    /\ Depth(expr) < MaxDepth
    /\ LET r == vector_binary(expr, other, f)
       IN  /\ expr' = IF r.thrown THEN expr ELSE r.node
           /\ last' = Constructed("vector_binary", size(expr), size(other), 0, r.thrown)
    /\ UNCHANGED dtlzvars

Finished(op, alpha, x0, st) ==
    [Outcome(op) EXCEPT !.alpha = alpha, !.x0 = x0, !.x = st.x,
                        !.calls = st.calls, !.blocks = st.blocks,
                        !.operand_calls = st.operand_calls]

\* expr.assign_to(x, alpha) with x holding ramp(size, v0)
AssignTo(alpha, v0) ==
    /\ ~IsLeaf(expr)
    /\ LET x0 == ramp(size(expr), v0)
       IN  last' = Finished("assign_to", alpha, x0, assign_to(expr, Run(x0), alpha))
    /\ UNCHANGED <<expr, dtlzvars>>

\* expr.plus_assign_to(x, alpha) with x holding ramp(size, v0)
PlusAssignTo(alpha, v0) ==
    /\ ~IsLeaf(expr)
    /\ LET x0 == ramp(size(expr), v0)
       IN  last' = Finished("plus_assign_to", alpha, x0,
                            plus_assign_to(expr, Run(x0), alpha))
    /\ UNCHANGED <<expr, dtlzvars>>

\* expr(i) on a constant vector, any index
Access(i) ==
    /\ expr.kind = "scalar_vector"
    /\ last' = [Outcome("at") EXCEPT !.idx = i, !.x = <<At(expr, i)>>]
    /\ UNCHANGED <<expr, dtlzvars>>

\* for(it = expr.begin(); it != expr.end(); ++it) on a constant vector
Iterate ==
    /\ expr.kind = "scalar_vector"
    /\ last' = [Outcome("iterate") EXCEPT
                    !.x = Traverse(scalar_vector_begin(expr), scalar_vector_end(expr))]
    /\ UNCHANGED <<expr, dtlzvars>>

---------------------------------------------------------------------------
(* DTLZ2.  A double is modelled in fixed point: the integer v stands for   *)
(* v / SCALE.  Search point coordinates lie on the grid of multiples of    *)
(* 1/2, where cos(x * pi / 2) and sin(x * pi / 2) are tabulated.           *)

SCALE == 10000

coord(h) == h * (SCALE \div 2)

\* SearchPointType(n, v)
SearchPointType(n, v) == [i \in 1..n |-> v]

Grid == {coord(h) : h \in 0..MaxHalf}

\* search points of dimension n: every coordinate is b, but for one that is a
Points(n) == {[i \in 1..n |-> IF i = j THEN a ELSE b] : j \in 1..n, a \in Grid, b \in Grid}
                 \cup {SearchPointType(n, b) : b \in Grid}

\* a * b, rounded to the nearest representable value
fmul(a, b) == (a * b + SCALE \div 2) \div SCALE

\* std::cos(v * M_PI / 2)
cosHalfPi(v) ==
    LET h == (v \div (SCALE \div 2)) % 8
    IN  CASE h = 0 -> SCALE
          [] h \in {1, 7} -> 7071
          [] h \in {2, 6} -> 0
          [] h \in {3, 5} -> -7071
          [] h = 4 -> -SCALE

\* std::sin(v * M_PI / 2)
sinHalfPi(v) ==
    LET h == (v \div (SCALE \div 2)) % 8
    IN  CASE h \in {0, 4} -> 0
          [] h \in {1, 3} -> 7071
          [] h = 2 -> SCALE
          [] h \in {5, 7} -> -7071
          [] h = 6 -> -SCALE

\* BoxConstraintHandler(lower, upper) and setBounds(lower, upper)
BoxConstraintHandler(lower, upper) == [m_lower |-> lower, m_upper |-> upper]

dimensions(handler) == Len(handler.m_lower)

DTLZ2_numberOfObjectives == m_objectives

DTLZ2_numberOfVariables == dimensions(m_handler)

DTLZ2_setNumberOfObjectives_clipped(numberOfObjectives) ==
    IF numberOfObjectives > DTLZ2_numberOfVariables
    THEN DTLZ2_numberOfVariables
    ELSE numberOfObjectives

\* the value setNumberOfObjectives stores in m_objectives
DTLZ2_setNumberOfObjectives(numberOfObjectives) == numberOfObjectives

\* the handler setNumberOfVariables leaves in m_handler
DTLZ2_setNumberOfVariables(numberOfVariables) ==
    BoxConstraintHandler(SearchPointType(numberOfVariables, 0),
                         SearchPointType(numberOfVariables, 1))

\* for(i = n - k + 1; i <= n; i++) g += pow(x(i-1) - 0.5, 2)
RECURSIVE DTLZ2_g_loop(_, _, _, _)
DTLZ2_g_loop(i, n, g, x) ==
    IF i <= n
    THEN LET d == x[i] - SCALE \div 2
         IN  DTLZ2_g_loop(i + 1, n, g + fmul(d, d), x)
    ELSE g

DTLZ2_g_short(n, m, x) ==
    LET k == n - m
    IN  DTLZ2_g_loop(n - k + 1, n, 0, x)

DTLZ2_g(n, m, x) ==
    LET k == n - m + 1
    IN  DTLZ2_g_loop(n - k + 1, n, 0, x)

\* for(j = m - i; j >= 1; j--) f *= cos(x(j-1) * M_PI / 2)
RECURSIVE DTLZ2_cos_loop(_, _, _)
DTLZ2_cos_loop(j, f, x) ==
    IF j >= 1
    THEN DTLZ2_cos_loop(j - 1, fmul(f, cosHalfPi(x[j])), x)
    ELSE f

DTLZ2_objective_nosine(i, m, g, x) == DTLZ2_cos_loop(m - i, SCALE + g, x)

\* value[i-1], the body of the loop over the objectives
DTLZ2_objective(i, m, g, x) ==
    LET f == DTLZ2_cos_loop(m - i, SCALE + g, x)
    IN  IF i > 1
        THEN fmul(f, sinHalfPi(x[(m - i + 1)]))
        ELSE f

DTLZ2_eval_sized_by_variables(n, m, x) ==
    [i \in 1..n |-> DTLZ2_objective(IF i > m THEN m ELSE i, m, DTLZ2_g(n, m, x), x)]

DTLZ2_eval(n, m, x) ==
    [i \in 1..m |-> DTLZ2_objective(i, m, DTLZ2_g(n, m, x), x)]

\* the zero-based indices i-1 at which the loop accumulating g reads x
RECURSIVE DTLZ2_g_reads_loop(_, _, _)
DTLZ2_g_reads_loop(i, n, reads) ==
    IF i <= n
    THEN DTLZ2_g_reads_loop(i + 1, n, reads \cup {i - 1})
    ELSE reads

DTLZ2_g_reads(n, m) ==
    LET k == n - m + 1
    IN  DTLZ2_g_reads_loop(n - k + 1, n, {})

\* the zero-based indices j-1 at which the loop over the cosine factors reads x
RECURSIVE DTLZ2_cos_reads_loop(_, _)
DTLZ2_cos_reads_loop(j, reads) ==
    IF j >= 1
    THEN DTLZ2_cos_reads_loop(j - 1, reads \cup {j - 1})
    ELSE reads

\* the zero-based indices objective i reads x at: by its cosine factors, by its sine factor
DTLZ2_objective_reads(i, m) ==
    [cos |-> DTLZ2_cos_reads_loop(m - i, {}),
     sin |-> IF i > 1 THEN {(m - i + 1) - 1} ELSE {}]

DTLZ2_eval_reads(n, m) ==
    [g |-> DTLZ2_g_reads(n, m),
     f |-> [i \in 1..m |-> DTLZ2_objective_reads(i, m)]]

\* the calls of eval whose reads of x all fall inside x
Defined(n, m) == 1 <= m /\ m <= n + 1

Called(op) ==
    [op |-> op, x |-> <<>>, value |-> <<>>, thrown |-> FALSE,
     g |-> 0, reads |-> [g |-> {}, f |-> <<>>]]

SetNumberOfObjectives(m) ==
    /\ m_objectives' = DTLZ2_setNumberOfObjectives(m)
    /\ cfg' = [cfg EXCEPT !.objectives = m]
    /\ result' = Called("setNumberOfObjectives")
    /\ UNCHANGED <<m_handler, m_evaluationCounter, vecvars>>

SetNumberOfVariables(n) ==
    /\ m_handler' = DTLZ2_setNumberOfVariables(n)
    /\ cfg' = [cfg EXCEPT !.variables = n]
    /\ result' = Called("setNumberOfVariables")
    /\ UNCHANGED <<m_objectives, m_evaluationCounter, vecvars>>

Eval(x) ==
    /\ m_evaluationCounter < MaxEvals
    /\ Len(x) = DTLZ2_numberOfVariables
    /\ Defined(DTLZ2_numberOfVariables, DTLZ2_numberOfObjectives)
    /\ m_evaluationCounter' = m_evaluationCounter + 1
    /\ result' = [Called("eval") EXCEPT
                     !.x = x,
                     !.value = DTLZ2_eval(DTLZ2_numberOfVariables,
                                          DTLZ2_numberOfObjectives, x),
                     !.g = DTLZ2_g(DTLZ2_numberOfVariables,
                                   DTLZ2_numberOfObjectives, x),
                     !.reads = DTLZ2_eval_reads(DTLZ2_numberOfVariables,
                                                DTLZ2_numberOfObjectives)]
    /\ UNCHANGED <<m_objectives, m_handler, cfg, vecvars>>

\* eval reading x out of range: a range check that throws, or whatever the
\* memory behind x holds
EvalOutOfRange(x, thrown, garbage) ==
    /\ m_evaluationCounter < MaxEvals
    /\ Len(x) = DTLZ2_numberOfVariables
    /\ ~Defined(DTLZ2_numberOfVariables, DTLZ2_numberOfObjectives)
    /\ m_evaluationCounter' = m_evaluationCounter + 1
    /\ result' = [Called("eval") EXCEPT
                     !.x = x,
                     !.thrown = thrown,
                     !.value = IF thrown THEN <<>>
                               ELSE [i \in 1..DTLZ2_numberOfObjectives |-> garbage]]
    /\ UNCHANGED <<m_objectives, m_handler, cfg, vecvars>>

---------------------------------------------------------------------------
(* Specifications *)

\* DTLZ2(numVariables)
DTLZ2_init(numVariables) ==
    /\ m_objectives = 2
    /\ m_handler = BoxConstraintHandler(SearchPointType(numVariables, 0),
                                        SearchPointType(numVariables, 1))
    /\ m_evaluationCounter = 0
    /\ result = Called("construct")
    /\ cfg = [objectives |-> 2, variables |-> numVariables]

Init ==
    /\ expr = scalar_vector_default
    /\ last = Constructed("scalar_vector_default", 0, 0, 0, FALSE)
    /\ DTLZ2_init(0)

Next ==
    \/ \E n \in Lengths, v \in LeafVals : NewVector(n, v)
    \/ NewScalarVectorDefault
    \/ \E n \in Lengths, v \in ConstVals : NewScalarVector(n, v)
    \/ \E s \in Scalars : NewScalarMultiply(s)
    \/ \E f \in UnaryFunctors : NewUnary(f)
    \/ \E other \in Operands, exprIsLhs \in BOOLEAN : NewAddition(other, exprIsLhs)
    \/ \E other \in Operands, f \in BinaryFunctors : NewBinary(other, f)
    \/ \E alpha \in Alphas, v0 \in DestVals : AssignTo(alpha, v0)
    \/ \E alpha \in Alphas, v0 \in DestVals : PlusAssignTo(alpha, v0)
    \/ \E i \in 0..(MaxLen + 1) : Access(i)
    \/ Iterate

Spec == Init /\ [][Next]_vars

InitDTLZ2 ==
    /\ expr = scalar_vector_default
    /\ last = Constructed("scalar_vector_default", 0, 0, 0, FALSE)
    /\ \E numVariables \in 0..MaxVars : DTLZ2_init(numVariables)

NextDTLZ2 ==
    \/ \E m \in 0..(MaxVars + 1) : SetNumberOfObjectives(m)
    \/ \E n \in 0..MaxVars : SetNumberOfVariables(n)
    \/ \E x \in Points(DTLZ2_numberOfVariables) : Eval(x)
    \/ \E x \in Points(DTLZ2_numberOfVariables),
          thrown \in BOOLEAN, garbage \in {0, SCALE} : EvalOutOfRange(x, thrown, garbage)

SpecDTLZ2 == InitDTLZ2 /\ [][NextDTLZ2]_vars

---------------------------------------------------------------------------
(* Properties of the vector expressions, checked under Spec *)

IsKernelCall == last.op \in {"assign_to", "plus_assign_to"}

\* what the destination contributes to element i (one-based) of the result
Prior(i) == IF last.op = "plus_assign_to" THEN last.x0[i] ELSE 0

\* C1: after assign_to / plus_assign_to on a BinaryTransform F(e1, e2), element i
\* of the destination is (prior contents for plus-assign, nothing for assign)
\* + alpha * F(e1(i), e2(i)): the scale is applied on both paths.
C1_BinaryScaleApplied ==
    (IsKernelCall /\ expr.kind = "vector_binary") =>
        \A i \in 1..size(expr) :
            last.x[i] = Prior(i) + last.alpha *
                Apply2(expr.m_functor, At(expr.m_lhs, i - 1), At(expr.m_rhs, i - 1))

IsNestedScalarMultiply ==
    /\ expr.kind = "vector_scalar_multiply"
    /\ expr.m_expression.kind = "vector_scalar_multiply"

\* the run a kernel call left behind
LastRun ==
    [x |-> last.x, calls |-> last.calls, blocks |-> last.blocks,
     operand_calls |-> last.operand_calls]

\* C2: assign_to (plus_assign_to) with scale alpha on ScalarMultiply(ScalarMultiply(A, s1), s2)
\* leaves the destination exactly as A.assign_to (A.plus_assign_to) with scale
\* alpha * s2 * s1 does: the two levels only multiply the scale and delegate.
C2_ScalarMultiplyFusion ==
    (IsKernelCall /\ IsNestedScalarMultiply) =>
        LET A == expr.m_expression.m_expression
            s1 == expr.m_expression.m_scalar
            s2 == expr.m_scalar
        IN  LastRun = IF last.op = "assign_to"
                      THEN assign_to(A, Run(last.x0), last.alpha * s2 * s1)
                      ELSE plus_assign_to(A, Run(last.x0), last.alpha * s2 * s1)

C2_Witness ==
    /\ last.op = "assign_to"
    /\ IsNestedScalarMultiply
    /\ expr.m_scalar = 2 /\ expr.m_expression.m_scalar = -1
    /\ last.alpha = 2
    /\ size(expr) = MaxLen
    /\ last.x0[1] # 0

\* C3: Addition(A, B).assign_to(x, s) leaves x[i] = s*A(i) + s*B(i) whatever x held;
\* plus_assign_to leaves x[i] = old x[i] + s*A(i) + s*B(i); A and B may be Additions.
C3_AdditionKernels ==
    (IsKernelCall /\ expr.kind = "vector_addition") =>
        \A i \in 1..size(expr) :
            last.x[i] = Prior(i) + last.alpha * At(expr.m_lhs, i - 1)
                                 + last.alpha * At(expr.m_rhs, i - 1)

C3_Witness ==
    /\ last.op = "assign_to"
    /\ expr.kind = "vector_addition"
    /\ expr.m_rhs.kind = "vector_addition"
    /\ last.alpha = 2
    /\ size(expr) = MaxLen
    /\ last.x0[1] # 0

\* C4: UnaryTransform F(e): assign_to clears x and leaves x[i] = alpha * F(e(i));
\* plus_assign_to leaves x[i] = old x[i] + alpha * F(e(i)); the scale is applied
\* after the functor.
C4_UnaryKernels ==
    (IsKernelCall /\ expr.kind = "vector_unary") =>
        \A i \in 1..size(expr) :
            last.x[i] = Prior(i) + last.alpha *
                Apply1(expr.m_functor, At(expr.m_expression, i - 1))

\* a call where alpha * F(e(0)) differs from F(alpha * e(0)) and x was not zero
C4_Witness ==
    /\ last.op = "assign_to"
    /\ expr.kind = "vector_unary"
    /\ size(expr) = MaxLen
    /\ last.x0[1] # 0
    /\ last.alpha * Apply1(expr.m_functor, At(expr.m_expression, 0))
           # Apply1(expr.m_functor, last.alpha * At(expr.m_expression, 0))

RECURSIVE WellSized(_)
WellSized(e) ==
    CASE e.kind \in {"vector", "scalar_vector"} -> TRUE
      [] e.kind \in {"vector_scalar_multiply", "vector_unary"} -> WellSized(e.m_expression)
      [] OTHER -> /\ size(e.m_lhs) = size(e.m_rhs)
                  /\ size(e.m_lhs) = size(e)
                  /\ WellSized(e.m_lhs)
                  /\ WellSized(e.m_rhs)

IsBinaryConstruction ==
    last.op = "construct" /\ last.kind \in {"vector_addition", "vector_binary"}

\* C6: constructing an Addition or BinaryTransform from operands of different
\* sizes is reported as a size mismatch and yields no node; every node that was
\* constructed has lhs().size() = rhs().size() = size().
C6_SizeMismatchReported ==
    /\ IsBinaryConstruction => (last.thrown <=> last.n1 # last.n2)
    /\ (IsBinaryConstruction /\ ~last.thrown) => expr.kind = last.kind
    /\ WellSized(expr)

C6_Witness ==
    /\ IsBinaryConstruction
    /\ last.kind = "vector_addition"
    /\ last.n1 # last.n2
    /\ last.thrown
    /\ expr.kind = "vector_binary"

\* C7: ConstantVector(n, v) has size n and element v at every index, in range or
\* not; begin() to end() visits exactly n elements, all v; the default-constructed
\* one has size 0.
C7_ConstantVector ==
    /\ (last.op = "construct" /\ last.kind = "scalar_vector") =>
            /\ size(expr) = last.n1
            /\ \A i \in 0..(MaxLen + 1) : At(expr, i) = last.arg
            /\ scalar_vector_begin(expr).position = 0
            /\ scalar_vector_end(expr).position = last.n1
    /\ (last.op = "construct" /\ last.kind = "scalar_vector_default") => size(expr) = 0
    /\ last.op = "at" => last.x = <<expr.m_value>>
    /\ last.op = "iterate" =>
            /\ Len(last.x) = size(expr)
            /\ \A k \in 1..Len(last.x) : last.x[k] = expr.m_value

C7_Witness ==
    /\ last.op = "iterate"
    /\ size(expr) = MaxLen
    /\ last.x = [k \in 1..MaxLen |-> 2]

---------------------------------------------------------------------------
(* Properties of DTLZ2, checked under SpecDTLZ2 *)

Tolerance == SCALE \div 100

Near(a, b) == a - b <= Tolerance /\ b - a <= Tolerance

\* the last call was eval with 1 <= m <= n
EvaluatedInContract ==
    /\ result.op = "eval"
    /\ 1 <= DTLZ2_numberOfObjectives
    /\ DTLZ2_numberOfObjectives <= DTLZ2_numberOfVariables

\* the distance suffix: one-based positions m..n of x
SuffixAtHalf ==
    \A i \in DTLZ2_numberOfObjectives..DTLZ2_numberOfVariables : result.x[i] = SCALE \div 2

\* the prefix: one-based positions 1..m-1 of x
PrefixInBox ==
    \A i \in 1..(DTLZ2_numberOfObjectives - 1) : 0 <= result.x[i] /\ result.x[i] <= SCALE

AllNonNegative == \A i \in 1..Len(result.value) : result.value[i] >= 0

\* C8 as stated: eval returns exactly m values, and all are non-negative
\* whenever the distance-suffix variables are all 0.5.
C8_AsStated ==
    EvaluatedInContract =>
        /\ Len(result.value) = DTLZ2_numberOfObjectives
        /\ SuffixAtHalf => AllNonNegative

\* C8 amended: eval returns exactly m values, and all are non-negative whenever
\* the distance-suffix variables are all 0.5 and the prefix variables lie in [0, 1].
C8_LengthAndSign ==
    EvaluatedInContract =>
        /\ Len(result.value) = DTLZ2_numberOfObjectives
        /\ (SuffixAtHalf /\ PrefixInBox) => AllNonNegative

C8_Witness ==
    /\ EvaluatedInContract
    /\ DTLZ2_numberOfObjectives = 3
    /\ DTLZ2_numberOfVariables = MaxVars
    /\ SuffixAtHalf
    /\ PrefixInBox
    /\ result.x[1] = SCALE
    /\ result.value = <<0, 0, SCALE>>

IsScenario ==
    /\ result.op = "eval"
    /\ DTLZ2_numberOfVariables = 5
    /\ DTLZ2_numberOfObjectives = 2
    /\ result.x = SearchPointType(5, SCALE \div 2)

\* C9 as stated: n = 5, m = 2, x = (0.5, ..., 0.5) gives a first objective near
\* cos(0) = 1 and a second objective near sin(0) = 0.
C9_AsStated ==
    IsScenario => Near(result.value[1], SCALE) /\ Near(result.value[2], 0)

\* C9 amended: n = 5, m = 2, x = (0.5, ..., 0.5) gives g = 0, a first objective
\* near cos(pi/4) = 0.7071 and a second objective near sin(pi/4) = 0.7071.
C9_Scenario ==
    IsScenario =>
        /\ DTLZ2_g(5, 2, result.x) = 0
        /\ Len(result.value) = 2
        /\ Near(result.value[1], 7071)
        /\ Near(result.value[2], 7071)

C9_Witness == IsScenario /\ m_evaluationCounter = 1

\* C10: numberOfObjectives() is the argument of the latest setNumberOfObjectives
\* (2 if none), numberOfVariables() that of the latest setNumberOfVariables (the
\* constructor's if none); a setter leaves the other quantity alone, nothing is
\* clipped when m > n, and eval changes neither.
C10_ConfigurationReported ==
    /\ DTLZ2_numberOfObjectives = cfg.objectives
    /\ DTLZ2_numberOfVariables = cfg.variables
    /\ result.op = "construct" => DTLZ2_numberOfObjectives = 2

C10_Witness ==
    /\ result.op = "eval"
    /\ DTLZ2_numberOfObjectives = MaxVars + 1
    /\ DTLZ2_numberOfVariables = 1
    /\ m_evaluationCounter = MaxEvals

\* sum of (x(j) - 0.5)^2 over the zero-based indices lo..hi
RECURSIVE SumSquaredDeviations(_, _, _)
SumSquaredDeviations(lo, hi, x) ==
    IF lo > hi
    THEN 0
    ELSE fmul(x[lo + 1] - SCALE \div 2, x[lo + 1] - SCALE \div 2)
         + SumSquaredDeviations(lo + 1, hi, x)

\* f times the product of cos(x(j) * pi / 2) over the zero-based indices lo..hi
RECURSIVE TimesCosines(_, _, _, _)
TimesCosines(f, lo, hi, x) ==
    IF lo > hi
    THEN f
    ELSE TimesCosines(fmul(f, cosHalfPi(x[lo + 1])), lo + 1, hi, x)

\* objective i (1 <= i <= m) as the claim writes it
ExpectedObjective(i, m, g, x) ==
    LET f == TimesCosines(SCALE + g, 0, m - i - 1, x)
    IN  IF i > 1 THEN fmul(f, sinHalfPi(x[(m - i) + 1])) ELSE f

\* C11: in eval with 1 <= m <= n every index read from x lies in 0..n-1; g is the
\* sum of (x(j) - 0.5)^2 over exactly the n-m+1 indices j = m-1..n-1; objective i
\* is (1+g) times the product of cos(x(j)*pi/2) over j = 0..m-i-1, times
\* sin(x(m-i)*pi/2) when i > 1 and with no sine factor when i = 1; x(m-1) is read
\* by g only, never by a cosine or a sine factor.
C11_EvalIndicesAndFormula ==
    EvaluatedInContract =>
        LET n == DTLZ2_numberOfVariables
            m == DTLZ2_numberOfObjectives
            x == result.x
        IN  /\ result.reads.g = (m - 1)..(n - 1)
            /\ Cardinality(result.reads.g) = n - m + 1
            /\ result.g = SumSquaredDeviations(m - 1, n - 1, x)
            /\ Len(result.reads.f) = m
            /\ Len(result.value) = m
            /\ \A i \in 1..m :
                    /\ result.reads.f[i].cos = 0..(m - i - 1)
                    /\ result.reads.f[i].sin = IF i > 1 THEN {m - i} ELSE {}
                    /\ result.reads.f[i].cos \cup result.reads.f[i].sin \subseteq 0..(n - 1)
                    /\ (m - 1) \notin result.reads.f[i].cos \cup result.reads.f[i].sin
                    /\ Near(result.value[i], ExpectedObjective(i, m, result.g, x))

\* three objectives over MaxVars variables, the last variable off 0.5 (g = 0.25)
C11_Witness ==
    /\ EvaluatedInContract
    /\ DTLZ2_numberOfObjectives = 3
    /\ DTLZ2_numberOfVariables = MaxVars
    /\ result.x[MaxVars] = 0
    /\ result.g = SCALE \div 4
    /\ result.reads.g = 2..(MaxVars - 1)
    /\ result.reads.f[2].sin = {1}
    /\ result.value[3] = 8839

====
